---- MODULE Spec2Model ----
(***************************************************************************)
(* A model of the Wavefront profiling pipeline                             *)
(* (profiling/spark-jobs/wavefront_profiler.py).                           *)
(*                                                                         *)
(* Text is modelled character by character: a Python str is a sequence of  *)
(* one-character strings, and every regular expression of the parser is an *)
(* operator over such sequences that follows the matching rules of re.     *)
(* Python values are tagged records (PyNone, PyStr, PyInt, PyFloat) so     *)
(* that None, "" and 0 stay distinct.                                      *)
(***************************************************************************)
EXTENDS Integers, Sequences, FiniteSets, TLC

VARIABLES
    toks,          \* parser: the tokens the input line is assembled from
    line,          \* parser: the raw line handed to parse_line
    parsed,        \* parser: what parse_line returned (or raised)
    raw_df,        \* pipeline: the lines read from the input files
    parsed_df,     \* pipeline: the parsed rows
    metrics_df,    \* pipeline: the metric rows, with their family ids
    histos_df,     \* pipeline: the histogram rows, with their family ids
    spans_df,      \* pipeline: the span rows
    span_recipes,  \* pipeline: the span recipes written
    per_minute,    \* temporal: timestamped records of a family per minute
    temporal,      \* temporal: what _analyze_temporal_patterns returned
    sample,        \* estimator: the data an estimator is called on
    estimate,      \* estimator: what the estimator returned
    families,      \* run: the metric families of the batch, in loop order
    operations,    \* run: the span operations of the batch, in loop order
    raising,       \* run: the steps, families and operations that raise
    cursor,        \* run: the index of the next family or operation
    steps_done,    \* run: the top-level steps that have returned, in order
    written,       \* run: the paths written so far, in order
    outcome,       \* run: "running", "returned" or "raised"
    pc             \* position of the run

parser_vars == <<toks, line, parsed>>
pipeline_vars == <<raw_df, parsed_df, metrics_df, histos_df, spans_df, span_recipes>>
temporal_vars == <<per_minute, temporal>>
estimator_vars == <<sample, estimate>>
run_vars == <<families, operations, raising, cursor, steps_done, written, outcome>>
vars == <<parser_vars, pipeline_vars, temporal_vars, estimator_vars, run_vars, pc>>

\* the parts of the state a run does not use
ParserIdle == toks = <<>> /\ line = <<>> /\ parsed = [type |-> "idle"]
PipelineIdle ==
    /\ raw_df = <<>>
    /\ parsed_df = <<>>
    /\ metrics_df = <<>>
    /\ histos_df = <<>>
    /\ spans_df = <<>>
    /\ span_recipes = {}
TemporalIdle == per_minute = <<>> /\ temporal = [type |-> "idle"]
EstimatorIdle == sample = <<>> /\ estimate = [type |-> "idle"]
RunIdle ==
    /\ families = <<>>
    /\ operations = <<>>
    /\ raising = {}
    /\ cursor = 0
    /\ steps_done = <<>>
    /\ written = <<>>
    /\ outcome = "idle"

(***************************************************************************)
(* Characters                                                              *)
(***************************************************************************)
Quote == "\""
Backslash == "\\"
\* The two delta symbols of DELTA_PATTERN: U+2206 (INCREMENT, a math
\* symbol) and U+0394 (GREEK CAPITAL LETTER DELTA, a letter, so in \w).
DeltaIncrement == "U+2206"
DeltaGreek == "U+0394"

Whitespace == {" ", "\t"}
Digits == {"0", "1", "2", "3", "4", "5", "6", "7", "8", "9"}
LowerLetters == {"a", "b", "c", "d", "e", "f", "g", "h", "i", "j", "k", "l", "m",
                 "n", "o", "p", "q", "r", "s", "t", "u", "v", "w", "x", "y", "z"}
UpperLetters == {"A", "B", "C", "D", "E", "F", "G", "H", "I", "J", "K", "L", "M",
                 "N", "O", "P", "Q", "R", "S", "T", "U", "V", "W", "X", "Y", "Z"}
AsciiAlnum == LowerLetters \cup UpperLetters \cup Digits
\* [a-zA-Z0-9._-]
NameChars == AsciiAlnum \cup {".", "_", "-"}
\* \w of a str pattern: letters (any script), digits, underscore
WordChars == AsciiAlnum \cup {"_", DeltaGreek}

\* Code-point order of the characters the model uses (sorted() compares
\* strings by code point).
CharTable ==
    <<"\t", " ", "!", Quote, "#", "+", ",", "-", ".", "/",
      "0", "1", "2", "3", "4", "5", "6", "7", "8", "9", "=",
      "A", "B", "C", "D", "E", "F", "G", "H", "I", "J", "K", "L", "M",
      "N", "O", "P", "Q", "R", "S", "T", "U", "V", "W", "X", "Y", "Z",
      Backslash, "_",
      "a", "b", "c", "d", "e", "f", "g", "h", "i", "j", "k", "l", "m",
      "n", "o", "p", "q", "r", "s", "t", "u", "v", "w", "x", "y", "z",
      "|", DeltaGreek, DeltaIncrement>>

Ord(c) == CHOOSE i \in 1..Len(CharTable) : CharTable[i] = c

DigitVal(c) == Ord(c) - Ord("0")

(***************************************************************************)
(* Python values                                                           *)
(***************************************************************************)
PyNone == [t |-> "None"]
PyStr(s) == [t |-> "str", s |-> s]
PyInt(n) == [t |-> "int", n |-> n]
\* A dict is the sequence of its <<key, value>> pairs in insertion order.
PyDict(d) == [t |-> "dict", d |-> d]
\* A finite float is sign * m * 10^e with m stripped of trailing zeros.
PyFloat(kind, sign, m, e) == [t |-> "float", kind |-> kind, sign |-> sign, m |-> m, e |-> e]

\* bool(v) for the values the parser tests
Truthy(v) == /\ v.t # "None"
             /\ (v.t = "str" => v.s # <<>>)
             /\ (v.t = "dict" => v.d # <<>>)

\* a or b
PyOr(a, b) == IF Truthy(a) THEN a ELSE b

(***************************************************************************)
(* str helpers                                                             *)
(***************************************************************************)
Min(S) == CHOOSE x \in S : \A y \in S : x <= y
Max(S) == CHOOSE x \in S : \A y \in S : x >= y

\* A local assignment: Bind(e, LAMBDA v : body) is body with v standing
\* for the value of e, which is computed once.
Bind(e, Body(_)) == CHOOSE r \in {Body(v) : v \in {e}} : TRUE

\* First index >= i whose character is not in cls (Len(s)+1 if none).
RunEnd(s, i, cls) ==
    LET stop == {j \in i..Len(s) : s[j] \notin cls}
    IN IF stop = {} THEN Max({i, Len(s) + 1}) ELSE Min(stop)

\* First index >= i whose character is in cls (Len(s)+1 if none).
RunEndNot(s, i, cls) ==
    LET stop == {j \in i..Len(s) : s[j] \in cls}
    IN IF stop = {} THEN Max({i, Len(s) + 1}) ELSE Min(stop)

\* s[a:b] with 1-based a and exclusive b
Slice(s, a, b) == SubSeq(s, a, b - 1)

\* str.strip()
Strip(s) ==
    LET keep == {j \in 1..Len(s) : s[j] \notin Whitespace}
    IN IF keep = {} THEN <<>> ELSE SubSeq(s, Min(keep), Max(keep))

\* str.split(): the maximal runs of non-whitespace, in order
RECURSIVE SplitFrom(_, _)
SplitFrom(s, i) ==
    LET a == RunEnd(s, i, Whitespace)
        b == RunEndNot(s, a, Whitespace)
    IN IF a > Len(s) THEN <<>>
       ELSE <<Slice(s, a, b)>> \o SplitFrom(s, b)

Split(s) == SplitFrom(s, 1)

\* sep.join(parts)
RECURSIVE Join(_, _)
Join(sep, parts) ==
    IF parts = <<>> THEN <<>>
    ELSE IF Len(parts) = 1 THEN parts[1]
    ELSE parts[1] \o sep \o Join(sep, Tail(parts))

\* s.startswith(p) at 1-based index i
HasAt(s, i, p) ==
    /\ i + Len(p) - 1 <= Len(s)
    /\ \A k \in 1..Len(p) : s[i + k - 1] = p[k]

\* s.replace(old, new) for a two-character old and a one-character new
RECURSIVE Replace2(_, _, _)
Replace2(s, old, new) ==
    IF Len(s) < 2 THEN s
    ELSE IF HasAt(s, 1, old) THEN new \o Replace2(SubSeq(s, 3, Len(s)), old, new)
    ELSE <<s[1]>> \o Replace2(Tail(s), old, new)

(***************************************************************************)
(* int() and float() of a token                                            *)
(***************************************************************************)
\* An exception on its way to the caller
Raise(exc) == [type |-> "raise", exc |-> exc]
IsRaise(v) == "exc" \in DOMAIN v

Pow10(n) == IF n = 0 THEN 1 ELSE IF n = 1 THEN 10 ELSE IF n = 2 THEN 100
            ELSE IF n = 3 THEN 1000 ELSE IF n = 4 THEN 10000 ELSE 100000

\* Value of a run of digits (underscores, allowed singly between digits,
\* are skipped).
RECURSIVE DigitsValue(_)
DigitsValue(d) ==
    IF d = <<>> THEN 0
    ELSE IF d[Len(d)] = "_" THEN DigitsValue(SubSeq(d, 1, Len(d) - 1))
    ELSE 10 * DigitsValue(SubSeq(d, 1, Len(d) - 1)) + DigitVal(d[Len(d)])

\* digit (_? digit)* : a well-formed digit group
IsDigitGroup(d) ==
    /\ d # <<>>
    /\ \A k \in 1..Len(d) : d[k] \in Digits \cup {"_"}
    /\ d[1] \in Digits
    /\ d[Len(d)] \in Digits
    /\ \A k \in 1..(Len(d) - 1) : ~(d[k] = "_" /\ d[k + 1] = "_")

NumDigits(d) == Cardinality({k \in 1..Len(d) : d[k] \in Digits})

\* int(\d+) of a regex group
IntOfDigits(d) == PyInt(DigitsValue(d))

HasSign(tok) == tok # <<>> /\ tok[1] \in {"+", "-"}
Unsigned(tok) == IF HasSign(tok) THEN Tail(tok) ELSE tok

\* int(tok): [sign] digit-group; anything else raises ValueError
PyIntOf(tok) ==
    Bind(Unsigned(tok), LAMBDA body :
        IF ~IsDigitGroup(body) THEN Raise("ValueError")
        ELSE PyInt(IF tok[1] = "-" THEN 0 - DigitsValue(body) ELSE DigitsValue(body)))

ToLower(c) == IF c \in UpperLetters THEN CharTable[Ord(c) + (Ord("a") - Ord("A"))] ELSE c

LowerStr(s) == [k \in 1..Len(s) |-> ToLower(s[k])]

\* mantissa and exponent with the mantissa's trailing zeros moved to the exponent
RECURSIVE Normalize(_, _)
Normalize(m, e) ==
    IF m = 0 THEN <<0, 0>>
    ELSE IF m % 10 = 0 THEN Normalize(m \div 10, e + 1)
    ELSE <<m, e>>

InfWords == {<<"i", "n", "f">>, <<"i", "n", "f", "i", "n", "i", "t", "y">>}
NanWords == {<<"n", "a", "n">>}

\* The exponent part of a float literal from index p3 on: nothing, or
\* (e|E) [sign] digits up to the end of the token. -> [ok, exp]
FloatExponent(body, p3) ==
    IF p3 = Len(body) + 1 THEN [ok |-> TRUE, exp |-> 0]
    ELSE IF body[p3] \notin {"e", "E"} THEN [ok |-> FALSE]
    ELSE Bind(Slice(body, p3 + 1, Len(body) + 1), LAMBDA rest :
         Bind(Unsigned(rest), LAMBDA digits :
            IF ~IsDigitGroup(digits) THEN [ok |-> FALSE]
            ELSE [ok |-> TRUE,
                  exp |-> IF rest[1] = "-" THEN 0 - DigitsValue(digits)
                          ELSE DigitsValue(digits)]))

\* float(body) of an unsigned literal:
\*   (digits [. [digits]] | . digits) [(e|E) [sign] digits]
FloatLiteral(body, sign) ==
    Bind(RunEnd(body, 1, Digits \cup {"_"}), LAMBDA p2 :
    Bind(p2 <= Len(body) /\ body[p2] = ".", LAMBDA hasDot :
    Bind(IF hasDot THEN RunEnd(body, p2 + 1, Digits \cup {"_"}) ELSE p2, LAMBDA p3 :
    Bind(Slice(body, 1, p2), LAMBDA int :
    Bind(IF hasDot THEN Slice(body, p2 + 1, p3) ELSE <<>>, LAMBDA frac :
    Bind(FloatExponent(body, p3), LAMBDA x :
        IF \/ ~x.ok
           \/ (int = <<>> /\ frac = <<>>)
           \/ (int # <<>> /\ ~IsDigitGroup(int))
           \/ (frac # <<>> /\ ~IsDigitGroup(frac))
        THEN Raise("ValueError")
        ELSE Bind(Normalize(DigitsValue(int) * Pow10(NumDigits(frac)) + DigitsValue(frac),
                            x.exp - NumDigits(frac)), LAMBDA n :
                PyFloat("fin", sign, n[1], n[2]))))))))

\* float(tok): a float, or ValueError
PyFloatOf(tok) ==
    Bind(Unsigned(tok), LAMBDA body :
    Bind(IF HasSign(tok) /\ tok[1] = "-" THEN -1 ELSE 1, LAMBDA sign :
    Bind(LowerStr(body), LAMBDA word :
        IF word \in InfWords THEN PyFloat("inf", sign, 0, 0)
        ELSE IF word \in NanWords THEN PyFloat("nan", sign, 0, 0)
        ELSE FloatLiteral(body, sign))))

(***************************************************************************)
(* The regular expressions of WavefrontParser                              *)
(***************************************************************************)
NoMatch == [ok |-> FALSE]

\* [^"\\]*(?:\\.[^"\\]*)*" from index j on: the index of the closing quote,
\* 0 when the body is not closed. A backslash takes the next character with
\* it ('.' matches anything but a newline).
RECURSIVE QuotedEnd(_, _)
QuotedEnd(s, j) ==
    IF j > Len(s) THEN 0
    ELSE IF s[j] = Quote THEN j
    ELSE IF s[j] = Backslash
         THEN (IF j + 1 > Len(s) \/ s[j + 1] = "\n" THEN 0 ELSE QuotedEnd(s, j + 2))
    ELSE QuotedEnd(s, j + 1)

\* METRIC_NAME_PATTERN.match(tok): the quoted alternative first, then the
\* bare one; both anchored at the start, neither at the end.
MetricNameMatch(tok) ==
    Bind(IF tok # <<>> /\ tok[1] = Quote THEN QuotedEnd(tok, 2) ELSE 0, LAMBDA close :
        IF close # 0
        THEN [ok |-> TRUE, g1 |-> PyStr(Slice(tok, 2, close)), g2 |-> PyNone]
        ELSE IF tok # <<>> /\ tok[1] \in AsciiAlnum
        THEN [ok |-> TRUE, g1 |-> PyNone, g2 |-> PyStr(Slice(tok, 1, RunEnd(tok, 2, NameChars)))]
        ELSE NoMatch)

\* DELTA_PATTERN.match(name): a delta symbol followed by at least one character
DeltaMatch(name) ==
    IF Len(name) >= 2 /\ name[1] \in {DeltaIncrement, DeltaGreek}
    THEN [ok |-> TRUE, g1 |-> Tail(name)]
    ELSE NoMatch

\* (?:"([^"\\]*(?:\\.[^"\\]*)*)"|([^\s]+)) at index i: a closed quoted body,
\* else a run of non-whitespace. end is the index after the match.
ValueMatch(s, i) ==
    Bind(IF i <= Len(s) /\ s[i] = Quote THEN QuotedEnd(s, i + 1) ELSE 0, LAMBDA close :
        IF close # 0
        THEN [ok |-> TRUE, g1 |-> PyStr(Slice(s, i + 1, close)), g2 |-> PyNone, end |-> close + 1]
        ELSE IF i <= Len(s) /\ s[i] \notin Whitespace
        THEN Bind(RunEndNot(s, i, Whitespace), LAMBDA e :
                [ok |-> TRUE, g1 |-> PyNone, g2 |-> PyStr(Slice(s, i, e)), end |-> e])
        ELSE NoMatch)

SourceLiteral == <<"s", "o", "u", "r", "c", "e", "=">>

\* re.search(r'source=(?:"..."|([^\s]+))', s): the leftmost occurrence of
\* the literal that a value follows, wherever in the text it starts.
SourceSearch(s) ==
    Bind({i \in 1..Len(s) : HasAt(s, i, SourceLiteral) /\ ValueMatch(s, i + Len(SourceLiteral)).ok},
         LAMBDA at :
        IF at = {} THEN NoMatch
        ELSE Bind(Min(at), LAMBDA i :
             Bind(ValueMatch(s, i + Len(SourceLiteral)), LAMBDA v :
                [ok |-> TRUE, start |-> i, end |-> v.end, g1 |-> v.g1, g2 |-> v.g2])))

TimestampDigits == 10

\* \b at index i (between s[i-1] and s[i])
WordBoundary(s, i) ==
    (i > 1 /\ s[i - 1] \in WordChars) # (i <= Len(s) /\ s[i] \in WordChars)

\* re.search(r'\b(\d{10})\b', s): the leftmost run of exactly ten digits
\* with a word boundary on each side
TimestampSearch(s) ==
    Bind({i \in 1..Len(s) :
            /\ i + TimestampDigits - 1 <= Len(s)
            /\ \A k \in 0..(TimestampDigits - 1) : s[i + k] \in Digits
            /\ WordBoundary(s, i)
            /\ WordBoundary(s, i + TimestampDigits)}, LAMBDA at :
        IF at = {} THEN NoMatch
        ELSE Bind(Min(at), LAMBDA i :
                [ok |-> TRUE, start |-> i, end |-> i + TimestampDigits,
                 g1 |-> Slice(s, i, i + TimestampDigits)]))

\* TAG_PATTERN at index i: (\w+)=(value)
TagMatchAt(s, i) ==
    Bind(RunEnd(s, i, WordChars), LAMBDA q :
        IF i <= Len(s) /\ s[i] \in WordChars /\ q <= Len(s) /\ s[q] = "="
        THEN Bind(ValueMatch(s, q + 1), LAMBDA v :
                IF v.ok
                THEN [ok |-> TRUE, key |-> Slice(s, i, q), g2 |-> v.g1, g3 |-> v.g2, end |-> v.end]
                ELSE NoMatch)
        ELSE NoMatch)

\* TAG_PATTERN.finditer(s): the leftmost match from pos on, then on from its end
RECURSIVE TagFinditer(_, _)
TagFinditer(s, pos) ==
    Bind({i \in pos..Len(s) : TagMatchAt(s, i).ok}, LAMBDA at :
        IF at = {} THEN <<>>
        ELSE Bind(TagMatchAt(s, Min(at)), LAMBDA m : <<m>> \o TagFinditer(s, m.end)))

\* value.replace('\\"', '"').replace('\\\\', '\\')
Unescape(v) ==
    Replace2(Replace2(v, <<Backslash, Quote>>, <<Quote>>), <<Backslash, Backslash>>, <<Backslash>>)

\* tags[key] = value on a dict kept as a sequence of <<key, value>> in
\* insertion order
DictSet(d, k, v) ==
    IF \E j \in 1..Len(d) : d[j][1] = k
    THEN [j \in 1..Len(d) |-> IF d[j][1] = k THEN <<k, v>> ELSE d[j]]
    ELSE Append(d, <<k, v>>)

DictKeys(d) == {d[j][1] : j \in 1..Len(d)}

\* s with s[a:b] cut out (1-based a, exclusive b)
CutOut(s, a, b) == Slice(s, 1, a) \o Slice(s, b, Len(s) + 1)

(***************************************************************************)
(* WavefrontParser                                                         *)
(***************************************************************************)
\* return None
ReturnNone == [type |-> "none"]

\* The tag loop of _parse_metric and _parse_span over the matches of
\* finditer. The loop variable is named value: in _parse_metric it is the
\* same variable as the parsed metric value, so acc.value tracks it.
RECURSIVE TagLoop(_, _)
TagLoop(matches, acc) ==
    IF matches = <<>> THEN acc
    ELSE Bind(Head(matches), LAMBDA m :
         Bind(PyOr(m.g2, m.g3), LAMBDA value :
            IF Truthy(value)
            THEN Bind(IF Truthy(m.g2) THEN PyStr(Unescape(value.s)) ELSE value, LAMBDA stored :
                    TagLoop(Tail(matches),
                            [tags |-> DictSet(acc.tags, m.key, stored), value |-> stored]))
            ELSE TagLoop(Tail(matches), [tags |-> acc.tags, value |-> value])))

\* Variant of BadValueResult: the ValueError of float() is left to propagate.
BadValueRaises == Raise("ValueError")

\* except ValueError: return None  (the value did not convert)
BadValueResult == ReturnNone

\* _parse_metric, from the value on (name and is_delta already settled)
ParseMetricRest(ln, parts, metric_name, is_delta) ==
    Bind(PyFloatOf(parts[2]), LAMBDA value :
        IF IsRaise(value) THEN BadValueResult
        ELSE
    Bind(Join(<<" ">>, SubSeq(parts, 3, Len(parts))), LAMBDA remaining :
    Bind(SourceSearch(remaining), LAMBDA source_match :
        IF ~source_match.ok THEN ReturnNone
        ELSE
    Bind(CutOut(remaining, source_match.start, source_match.end), LAMBDA rem2 :
    Bind(TimestampSearch(rem2), LAMBDA timestamp_match :
    Bind(IF timestamp_match.ok
         THEN CutOut(rem2, timestamp_match.start, timestamp_match.end)
         ELSE rem2, LAMBDA rem3 :
    Bind(TagLoop(TagFinditer(rem3, 1), [tags |-> <<>>, value |-> value]), LAMBDA loop :
        [type |-> "metric",
         metric |-> metric_name,
         value |-> loop.value,
         timestamp |-> IF timestamp_match.ok THEN IntOfDigits(timestamp_match.g1) ELSE PyNone,
         source |-> PyOr(source_match.g1, source_match.g2),
         tags |-> loop.tags,
         is_delta |-> is_delta,
         line_length |-> Len(ln)])))))))

\* WavefrontParser._parse_metric
ParseMetric(ln) ==
    Bind(Split(ln), LAMBDA parts :
        IF Len(parts) < 3 THEN ReturnNone
        ELSE
    Bind(MetricNameMatch(parts[1]), LAMBDA metric_match :
        IF ~metric_match.ok THEN ReturnNone
        ELSE
    Bind(PyOr(metric_match.g1, metric_match.g2), LAMBDA metric_name :
        IF metric_name.t # "str"
        \* DELTA_PATTERN.match(None)
        THEN Raise("TypeError")
        ELSE
    Bind(DeltaMatch(metric_name.s), LAMBDA delta_match :
        ParseMetricRest(ln, parts,
                        IF delta_match.ok THEN PyStr(delta_match.g1) ELSE metric_name,
                        delta_match.ok)))))

\* HISTOGRAM_PATTERN.match(ln): ^(!M|!H|!D)\s+(\d+)?\s+#(\d+)\s+(.*)
\* With the digits of group 2 present the whitespace on either side is one
\* run each; without them both \s+ share one run, which then needs two
\* characters.
HistogramMatch(ln) ==
    IF ~(Len(ln) >= 2 /\ ln[1] = "!" /\ ln[2] \in {"M", "H", "D"}) THEN NoMatch
    ELSE
    Bind(RunEnd(ln, 3, Whitespace), LAMBDA w1 :
    Bind(RunEnd(ln, w1, Digits), LAMBDA d1 :
    Bind(RunEnd(ln, d1, Whitespace), LAMBDA w2 :
    Bind(d1 > w1, LAMBDA hasTs :
    Bind(IF hasTs THEN w2 ELSE w1, LAMBDA hash :
    Bind(RunEnd(ln, hash + 1, Digits), LAMBDA c1 :
    Bind(RunEnd(ln, c1, Whitespace), LAMBDA w3 :
        IF /\ w1 > 3
           /\ (IF hasTs THEN w2 > d1 ELSE w1 - 3 >= 2)
           /\ hash <= Len(ln)
           /\ ln[hash] = "#"
           /\ c1 > hash + 1
           /\ w3 > c1
        THEN [ok |-> TRUE,
              g1 |-> Slice(ln, 1, 3),
              g2 |-> IF hasTs THEN PyStr(Slice(ln, w1, d1)) ELSE PyNone,
              g3 |-> Slice(ln, hash + 1, c1),
              g4 |-> Slice(ln, w3, Len(ln) + 1)]
        ELSE NoMatch)))))))

\* Variant of ParseCentroids: a pair that fails to convert is skipped
\* (continue) instead of ending the loop (break).
RECURSIVE ParseCentroidsSkipping(_, _)
ParseCentroidsSkipping(centroid_parts, i) ==
    IF ~(i <= Len(centroid_parts)) THEN <<>>
    ELSE IF ~(i + 1 <= Len(centroid_parts)) THEN <<>>
    ELSE Bind(PyIntOf(centroid_parts[i]), LAMBDA c_count :
         Bind(PyFloatOf(centroid_parts[i + 1]), LAMBDA c_value :
            IF IsRaise(c_count) \/ IsRaise(c_value)
            THEN ParseCentroidsSkipping(centroid_parts, i + 2)
            ELSE <<[count |-> c_count, value |-> c_value]>>
                   \o ParseCentroidsSkipping(centroid_parts, i + 2)))

\* The centroid loop of _parse_histogram: pairs (int, float) from index i
\* on; the first token that fails to convert, or a last token with no
\* partner, ends the loop.
RECURSIVE ParseCentroids(_, _)
ParseCentroids(centroid_parts, i) ==
    IF ~(i <= Len(centroid_parts)) THEN <<>>
    ELSE IF ~(i + 1 <= Len(centroid_parts)) THEN <<>>
    ELSE Bind(PyIntOf(centroid_parts[i]), LAMBDA c_count :
            IF IsRaise(c_count) THEN <<>>
            ELSE Bind(PyFloatOf(centroid_parts[i + 1]), LAMBDA c_value :
                    IF IsRaise(c_value) THEN <<>>
                    ELSE <<[count |-> c_count, value |-> c_value]>>
                           \o ParseCentroids(centroid_parts, i + 2)))

\* WavefrontParser._parse_histogram
ParseHistogram(histo_match, full_line) ==
    [type |-> "histogram",
     granularity |-> histo_match.g1,
     timestamp |-> IF Truthy(histo_match.g2) THEN IntOfDigits(histo_match.g2.s) ELSE PyNone,
     count |-> IntOfDigits(histo_match.g3),
     centroids |-> ParseCentroids(Split(histo_match.g4), 1),
     line_length |-> Len(full_line)]

\* \s+(\d+)\s+(\d+)$ at index p
SpanTailAt(ln, p) ==
    Bind(RunEnd(ln, p, Whitespace), LAMBDA a :
    Bind(RunEnd(ln, a, Digits), LAMBDA b :
    Bind(RunEnd(ln, b, Whitespace), LAMBDA c :
    Bind(RunEnd(ln, c, Digits), LAMBDA d :
        IF p <= Len(ln) /\ a > p /\ b > a /\ c > b /\ d > c /\ d = Len(ln) + 1
        THEN [ok |-> TRUE, g4 |-> Slice(ln, a, b), g5 |-> Slice(ln, c, d)]
        ELSE NoMatch))))

\* SPAN_PATTERN.match(ln): ^(\S+)\s+source=(\S+)\s+(.*?)\s+(\d+)\s+(\d+)$
\* The \s+ after the source is greedy (the longest x that lets the rest
\* match), the middle group lazy (then the shortest p).
SpanMatch(ln) ==
    Bind(RunEndNot(ln, 1, Whitespace), LAMBDA t1 :
    Bind(RunEnd(ln, t1, Whitespace), LAMBDA w1 :
    Bind(w1 + Len(SourceLiteral), LAMBDA v0 :
    Bind(RunEndNot(ln, v0, Whitespace), LAMBDA v1 :
    Bind(RunEnd(ln, v1, Whitespace), LAMBDA w2 :
    Bind({p \in (v1 + 1)..Len(ln) : SpanTailAt(ln, p).ok}, LAMBDA tails :
    Bind({x \in (v1 + 1)..w2 : \E p \in tails : p >= x}, LAMBDA xs :
        IF t1 > 1 /\ w1 > t1 /\ HasAt(ln, w1, SourceLiteral) /\ v1 > v0 /\ xs # {}
        THEN Bind(Max(xs), LAMBDA x :
             Bind(Min({q \in tails : q >= x}), LAMBDA p :
             Bind(SpanTailAt(ln, p), LAMBDA tail :
                [ok |-> TRUE,
                 g1 |-> Slice(ln, 1, t1),
                 g2 |-> Slice(ln, v0, v1),
                 g3 |-> Slice(ln, x, p),
                 g4 |-> tail.g4,
                 g5 |-> tail.g5])))
        ELSE NoMatch)))))))

\* WavefrontParser._parse_span
ParseSpan(span_match) ==
    [type |-> "span",
     operation |-> PyStr(span_match.g1),
     source |-> PyStr(span_match.g2),
     span_tags |-> TagLoop(TagFinditer(span_match.g3, 1),
                           [tags |-> <<>>, value |-> PyNone]).tags,
     start_ms |-> IntOfDigits(span_match.g4),
     duration_ms |-> IntOfDigits(span_match.g5)]

ErrorPrefixLen == 100

\* The body of the try block of parse_line: first match wins
Dispatch(ln) ==
    Bind(HistogramMatch(ln), LAMBDA histo_match :
        IF histo_match.ok THEN ParseHistogram(histo_match, ln)
        ELSE Bind(SpanMatch(ln), LAMBDA span_match :
                IF span_match.ok THEN ParseSpan(span_match)
                ELSE ParseMetric(ln)))

\* Variant of CatchAll: no except clause, the failure reaches the caller.
CatchNothing(ln, out) == out

\* except Exception as e: the failure becomes an error record
CatchAll(ln, out) ==
    IF IsRaise(out)
    THEN [type |-> "error",
          line |-> SubSeq(ln, 1, IF Len(ln) < ErrorPrefixLen THEN Len(ln) ELSE ErrorPrefixLen),
          error |-> out.exc]
    ELSE out

\* WavefrontParser.parse_line
parse_line(raw) ==
    Bind(Strip(raw), LAMBDA ln :
        IF ln = <<>> \/ ln[1] = "#" THEN ReturnNone
        ELSE CatchAll(ln, Dispatch(ln)))

(***************************************************************************)
(* Input lines                                                             *)
(*                                                                         *)
(* A line is assembled from tokens joined by single spaces. Each token     *)
(* carries, beside its text, what it stands for (key, val, num, int), so   *)
(* that a statement about a line can name the expected record without      *)
(* going through the parser. The empty token makes a doubled space.        *)
(***************************************************************************)
Tk(kind, text) ==
    [kind |-> kind, text |-> text, key |-> <<>>, val |-> <<>>, num |-> PyNone, int |-> PyNone]

TagTk(key, val) ==
    [Tk("tag", key \o <<"=">> \o val) EXCEPT !.key = key, !.val = val]

EmptyTk == Tk("empty", <<>>)

\* names: bare, bare with a delta symbol, quoted with a delta symbol, quoted empty
NameCpuLoad == [Tk("bare", <<"c", "p", "u", ".", "l", "o", "a", "d">>)
                  EXCEPT !.val = <<"c", "p", "u", ".", "l", "o", "a", "d">>]
NameBareDelta == [Tk("bare_delta", <<DeltaIncrement, "r", "q">>) EXCEPT !.val = <<"r", "q">>]
NameQuotedDelta == [Tk("quoted_delta", <<Quote, DeltaGreek, "r", "q", Quote>>)
                      EXCEPT !.val = <<"r", "q">>]
NameQuotedEmpty == Tk("quoted_empty", <<Quote, Quote>>)
NameTokens == {NameCpuLoad, NameBareDelta, NameQuotedDelta, NameQuotedEmpty}

\* values: one that converts to a float, one that does not
Value42p5 == [Tk("float", <<"4", "2", ".", "5">>) EXCEPT !.num = PyFloat("fin", 1, 425, -1)]
ValueAbc == Tk("nonfloat", <<"a", "b", "c">>)
ValueTokens == {Value42p5, ValueAbc}

\* what may follow the value
TsTk == [Tk("ts", <<"1", "7", "0", "0", "0", "0", "0", "0", "0", "0">>)
           EXCEPT !.int = PyInt(1700000000)]
SourceTk == [Tk("source", SourceLiteral \o <<"w", "e", "b", "-", "0", "1">>)
               EXCEPT !.key = <<"s", "o", "u", "r", "c", "e">>,
                      !.val = <<"w", "e", "b", "-", "0", "1">>]
TagDatasource == TagTk(<<"d", "a", "t", "a", "s", "o", "u", "r", "c", "e">>, <<"x">>)
TagEnv == TagTk(<<"e", "n", "v">>, <<"p", "r", "o", "d">>)
TagId == TagTk(<<"i", "d">>, <<"1", "2", "3", "4", "5", "6", "7", "8", "9", "0">>)
\* e="a\"b", whose value un-escapes to a"b
TagQuoted == [Tk("tag", <<"e", "=", Quote, "a", Backslash, Quote, "b", Quote>>)
                EXCEPT !.key = <<"e">>, !.val = <<"a", Quote, "b">>]
TailTokens == {TsTk, SourceTk, TagDatasource, TagEnv, TagId, TagQuoted}

\* histogram lines
DirectiveTokens == {Tk("directive", <<"!", "M">>), Tk("directive", <<"!", "H">>),
                    Tk("directive", <<"!", "D">>)}
CountTk == [Tk("count", <<"#", "2", "0">>) EXCEPT !.int = PyInt(20)]
CentFive == [Tk("cent", <<"5">>) EXCEPT !.int = PyInt(5), !.num = PyFloat("fin", 1, 5, 0)]
CentOnePointO == [Tk("cent", <<"1", ".", "0">>) EXCEPT !.num = PyFloat("fin", 1, 1, 0)]
CentX == Tk("cent", <<"x">>)
CentroidTokens == {CentFive, CentOnePointO, CentX}

CommentTk == Tk("comment", <<"#", "c">>)

MaxTail == 3
MaxCentroidTokens == 4

\* the sequences over S of length at most n
SeqsUpTo(S, n) == UNION {[1..k -> S] : k \in 0..n}

MetricInputs ==
    {<<n, v>> \o tail : n \in NameTokens, v \in ValueTokens, tail \in SeqsUpTo(TailTokens, MaxTail)}

HistogramInputs ==
    {<<d>> \o pre \o <<CountTk>> \o cents :
        d \in DirectiveTokens,
        pre \in {<<>>, <<EmptyTk>>, <<TsTk>>},
        cents \in SeqsUpTo(CentroidTokens, MaxCentroidTokens)}

SpanInputs ==
    {<<NameCpuLoad, SourceTk>> \o mid \o <<CentFive, CentFive>> :
        mid \in {<<>>, <<EmptyTk>>, <<TagEnv>>, <<TagEnv, TagQuoted>>}}

OtherInputs ==
    {<<>>, <<EmptyTk>>, <<EmptyTk, EmptyTk>>, <<CommentTk>>, <<CommentTk, Value42p5, SourceTk>>,
     <<EmptyTk, NameCpuLoad, Value42p5, SourceTk, EmptyTk>>}

Inputs == MetricInputs \cup HistogramInputs \cup SpanInputs \cup OtherInputs

\* the text of a token sequence
Render(ts) == Join(<<" ">>, [k \in 1..Len(ts) |-> ts[k].text])

Pending == [type |-> "pending"]

(***************************************************************************)
(* The parser as a state machine: one line in, one call of parse_line      *)
(***************************************************************************)
InitParse ==
    /\ toks \in Inputs
    /\ line = Render(toks)
    /\ parsed = Pending
    /\ pc = "start"
    /\ PipelineIdle
    /\ TemporalIdle
    /\ EstimatorIdle
    /\ RunIdle

\* parse_udf(col("value")): the call of parse_line on the line
ParseLine ==
    /\ pc = "start"
    /\ parsed' = parse_line(line)
    /\ pc' = "done"
    /\ UNCHANGED <<toks, line, pipeline_vars, temporal_vars, estimator_vars, run_vars>>

NextParse == ParseLine

SpecParse == InitParse /\ [][NextParse]_vars

(***************************************************************************)
(* Properties of the parser (checked under SpecParse)                      *)
(***************************************************************************)
Done == pc = "done"

TailOf(ts) == SubSeq(ts, 3, Len(ts))

\* the tag tokens of a token sequence, as the dictionary they spell:
\* a later pair with the same key replaces the earlier one
TagPairs(ts) ==
    {<<ts[j].key, PyStr(ts[j].val)>> :
        j \in {i \in 1..Len(ts) : /\ ts[i].kind = "tag"
                                  /\ \A l \in (i + 1)..Len(ts) :
                                        ~(ts[l].kind = "tag" /\ ts[l].key = ts[i].key)}}

DictPairs(d) == {d[j] : j \in 1..Len(d)}

RecordFields ==
    [metric |-> {"type", "metric", "value", "timestamp", "source", "tags", "is_delta",
                 "line_length"},
     histogram |-> {"type", "granularity", "timestamp", "count", "centroids", "line_length"},
     span |-> {"type", "operation", "source", "span_tags", "start_ms", "duration_ms"},
     error |-> {"type", "line", "error"},
     none |-> {"type"}]

\* C1: parse_line is total: whatever the line, the call ends with exactly
\* one of a metric, histogram or span record, an error record, or no
\* record; no exception of the parsing functions reaches the caller.
C1_ParseLineTotal ==
    Done => /\ parsed.type \in {"metric", "histogram", "span", "error", "none"}
            /\ DOMAIN parsed = RecordFields[parsed.type]
            /\ ((Strip(line) = <<>> \/ Strip(line)[1] = "#") => parsed = ReturnNone)

\* C1 witness: a failure was raised inside metric parsing (the name group
\* is empty) and came back as an error record.
C1_Witness ==
    /\ Done
    /\ toks # <<>>
    /\ toks[1] = NameQuotedEmpty
    /\ parsed.type = "error"
    /\ parsed.error = "TypeError"

\* <name> <value> [<timestamp>] source=<source> [key=value ...], bare name
WellFormedMetric(ts) ==
    /\ Len(ts) >= 3
    /\ ts[1].kind = "bare"
    /\ ts[2].kind = "float"
    /\ LET srcAt == IF ts[3].kind = "ts" THEN 4 ELSE 3
       IN /\ Len(ts) >= srcAt
          /\ ts[srcAt].kind = "source"
          /\ \A j \in (srcAt + 1)..Len(ts) : ts[j].kind = "tag"

\* C2: a well-formed metric line with a bare name gives the metric record
\* with the name of the first token, the float of the second, the
\* ten-digit timestamp, the source= value, exactly the remaining
\* key=value pairs as tags, and is_delta false.
C2_WellFormedMetricRecord ==
    (Done /\ WellFormedMetric(toks)) =>
        /\ parsed.type = "metric"
        /\ parsed.metric = PyStr(toks[1].val)
        /\ parsed.value = toks[2].num
        /\ parsed.timestamp = toks[3].int
        /\ parsed.source = PyStr(toks[IF toks[3].kind = "ts" THEN 4 ELSE 3].val)
        /\ DictPairs(parsed.tags) = TagPairs(toks)
        /\ parsed.is_delta = FALSE

\* a name METRIC_NAME_PATTERN accepts with a non-empty name, then a second
\* token that is no float
BadValueLine(ts) ==
    /\ Len(ts) >= 2
    /\ ts[1].kind \in {"bare", "quoted_delta"}
    /\ ts[2].kind = "nonfloat"

NoSourceTagLine(ts) ==
    /\ Len(ts) >= 2
    /\ ts[1].kind \in {"bare", "quoted_delta"}
    /\ ts[2].kind = "float"
    /\ \A j \in 3..Len(ts) : ts[j].kind \in {"ts", "tag"}

\* C4: a metric-shaped line with no tag whose key is exactly source gives
\* no record, also when other tags have keys that end in source.
C4_NoSourceTagNoRecord ==
    (Done /\ NoSourceTagLine(toks)) => parsed = ReturnNone

\* a float value, then timestamps, a source and tags in any order
ValueAndSourceLine(ts) ==
    /\ Len(ts) >= 3
    /\ ts[2].kind = "float"
    /\ \E j \in 3..Len(ts) : ts[j].kind = "source"
    /\ \A j \in 3..Len(ts) : ts[j].kind \in {"ts", "source", "tag"}

\* C5: a name with a delta symbol in front, bare or quoted, gives a metric
\* record with is_delta true and the symbol stripped from the name; a
\* name without it gives is_delta false.
C5_DeltaPrefix ==
    (Done /\ ValueAndSourceLine(toks)) =>
        /\ toks[1].kind \in {"bare_delta", "quoted_delta"} =>
              /\ parsed.type = "metric"
              /\ parsed.is_delta = TRUE
              /\ parsed.metric = PyStr(toks[1].val)
        /\ toks[1].kind = "bare" =>
              /\ parsed.type = "metric"
              /\ parsed.is_delta = FALSE

\* <directive> [<timestamp>] #<count> <centroid tokens>, single spaces
HistogramLine(ts) ==
    /\ Len(ts) >= 3
    /\ ts[1].kind = "directive"
    /\ LET countAt == IF ts[2].kind = "ts" THEN 3 ELSE 2
       IN /\ Len(ts) > countAt
          /\ ts[countAt].kind = "count"
          /\ \A j \in (countAt + 1)..Len(ts) : ts[j].kind = "cent"

\* C8: a histogram line parses as a histogram record with the timestamp
\* present and with it omitted; omitted, the record's timestamp is absent
\* and its count is the integer after '#'.
C8_HistogramBothForms ==
    (Done /\ HistogramLine(toks)) =>
        /\ parsed.type = "histogram"
        /\ parsed.timestamp = toks[2].int
        /\ parsed.count = toks[IF toks[2].kind = "ts" THEN 3 ELSE 2].int

\* a line HISTOGRAM_PATTERN matches: the timestamp, or a second space in
\* its place, then the count and at least one more token
MatchedHistogramLine(ts) ==
    /\ Len(ts) >= 4
    /\ ts[1].kind = "directive"
    /\ ts[2].kind \in {"ts", "empty"}
    /\ ts[3].kind = "count"
    /\ \A j \in 4..Len(ts) : ts[j].kind = "cent"

CentroidTokensOf(ts) == SubSeq(ts, 4, Len(ts))

\* the number of leading (integer, float) pairs of a token sequence
LeadingPairs(c) ==
    Max({k \in 0..(Len(c) \div 2) :
            \A j \in 1..k : c[2 * j - 1].int # PyNone /\ c[2 * j].num # PyNone})

\* C9: the centroids of a matched histogram line are the longest prefix
\* of the tokens after the count that splits into (integer, float) pairs,
\* in order; what follows the first failing token is ignored, and the
\* result is a histogram record, not an error.
C9_CentroidPrefix ==
    (Done /\ MatchedHistogramLine(toks)) =>
        /\ parsed.type = "histogram"
        /\ LET c == CentroidTokensOf(toks)
           IN /\ Len(parsed.centroids) = LeadingPairs(c)
              /\ \A j \in 1..LeadingPairs(c) :
                    parsed.centroids[j] = [count |-> c[2 * j - 1].int, value |-> c[2 * j].num]

\* C9 witness: one pair, then a token that is no integer, then a token
\* that would convert: the list stops after the first pair.
C9_Witness ==
    /\ Done
    /\ MatchedHistogramLine(toks)
    /\ CentroidTokensOf(toks) = <<CentFive, CentOnePointO, CentX, CentFive>>
    /\ Len(parsed.centroids) = 1

(***************************************************************************)
(* Family ids                                                              *)
(***************************************************************************)
HexDigits == <<"0", "1", "2", "3", "4", "5", "6", "7", "8", "9", "a", "b", "c", "d", "e", "f">>

HexByte(n) == <<HexDigits[(n \div 16) + 1], HexDigits[(n % 16) + 1]>>

\* sha1(s.encode('utf-8')).hexdigest(). The digest is taken as injective:
\* it is stood for by the hexadecimal code of the string hashed.
RECURSIVE Sha1Hex(_)
Sha1Hex(s) == IF s = <<>> THEN <<>> ELSE HexByte(Ord(s[1])) \o Sha1Hex(Tail(s))

\* a < b on str (code point order)
RECURSIVE StrLess(_, _)
StrLess(a, b) ==
    IF b = <<>> THEN FALSE
    ELSE IF a = <<>> THEN TRUE
    ELSE IF a[1] = b[1] THEN StrLess(Tail(a), Tail(b))
    ELSE Ord(a[1]) < Ord(b[1])

RECURSIVE Insert(_, _)
Insert(k, sorted) ==
    IF sorted = <<>> THEN <<k>>
    ELSE IF StrLess(k, sorted[1]) THEN <<k>> \o sorted
    ELSE <<sorted[1]>> \o Insert(k, Tail(sorted))

\* sorted(keys)
RECURSIVE Sorted(_)
Sorted(keys) == IF keys = <<>> THEN <<>> ELSE Insert(keys[1], Sorted(Tail(keys)))

\* tags.keys(): the keys in insertion order
KeyList(tags) == [j \in 1..Len(tags.d) |-> tags.d[j][1]]

\* Variant of SortedKeys: the keys are joined in insertion order.
UnsortedKeys(tags) == KeyList(tags)

\* sorted(tags.keys())
SortedKeys(tags) == Sorted(KeyList(tags))

\* f"{v}" of a str or of None
Format(v) == IF v = PyNone THEN <<"N", "o", "n", "e">> ELSE v.s

\* compute_family_id(metric_name, tags)
compute_family_id(metric_name, tags) ==
    Bind(IF ~Truthy(tags) THEN <<>> ELSE Join(<<",">>, SortedKeys(tags)),
         LAMBDA tag_keys :
            PyStr(Sha1Hex(Format(metric_name) \o <<"|">> \o tag_keys)))

\* col(c) of a row: null where the row has no such field
Column(row, c) ==
    IF c \notin DOMAIN row THEN PyNone
    ELSE IF c = "tags" THEN PyDict(row[c])
    ELSE row[c]

\* df.withColumn(c, v) on one row
WithColumn(row, c, v) == [f \in DOMAIN row \cup {c} |-> IF f = c THEN v ELSE row[f]]

\* df.filter(col("type") == type)
FilterType(df, type) == SelectSeq(df, LAMBDA row : row.type = type)

\* WavefrontProfiler._add_family_id
AddFamilyId(df) ==
    [i \in 1..Len(df) |->
        WithColumn(df[i], "family_id",
                   compute_family_id(Column(df[i], "metric"), Column(df[i], "tags")))]

SpanPrefix == <<"s", "p", "a", "n", "_">>

\* Variant of SpanFamilyId: the bare digest, without the namespace.
BareSpanFamilyId(operation) == PyStr(Sha1Hex(operation.s))

\* f"span_{sha1(operation.encode()).hexdigest()}"
SpanFamilyId(operation) == PyStr(SpanPrefix \o Sha1Hex(operation.s))

\* spans_df.select("operation").distinct()
Operations(df) == {df[i].operation : i \in 1..Len(df)}

\* the recipe _generate_span_recipes builds for one operation
SpanRecipe(df, operation) ==
    [version |-> "v1.0",
     family_id |-> SpanFamilyId(operation),
     metric_name |-> operation,
     schema |-> [type |-> "span"],
     sample_count |-> Len(SelectSeq(df, LAMBDA row : row.operation = operation))]

(***************************************************************************)
(* Input lines of the pipeline                                             *)
(***************************************************************************)
NameA == [Tk("bare", <<"a">>) EXCEPT !.val = <<"a">>]
NameQuotedBar == [Tk("quoted", <<Quote, "a", "|", "b", Quote>>) EXCEPT !.val = <<"a", "|", "b">>]
NameNone == [Tk("bare", <<"N", "o", "n", "e">>) EXCEPT !.val = <<"N", "o", "n", "e">>]
FamilyNames == {NameA, NameQuotedBar, NameNone}

TagBx == TagTk(<<"b">>, <<"x">>)
TagBy == TagTk(<<"b">>, <<"y">>)
TagCx == TagTk(<<"c">>, <<"x">>)
TagDx == TagTk(<<"d">>, <<"x">>)
FamilyTags == {TagBx, TagBy, TagCx, TagDx}

MaxTags == 2

\* tag lists without a repeated key
FamilyTagLists ==
    {t \in SeqsUpTo(FamilyTags, MaxTags) :
        \A i, j \in 1..Len(t) : i # j => t[i].key # t[j].key}

OpABar == Tk("op", <<"a", "|">>)
OpNoneBar == Tk("op", <<"N", "o", "n", "e", "|">>)
OpA == Tk("op", <<"a">>)
FamilyOperations == {OpABar, OpNoneBar, OpA}

FamilyInputs ==
    {<<n, Value42p5, SourceTk>> \o t : n \in FamilyNames, t \in FamilyTagLists}
    \cup {<<Tk("directive", <<"!", "M">>), TsTk, CountTk, CentFive, CentOnePointO>>}
    \cup {<<o, SourceTk>> \o mid \o <<CentFive, CentFive>> :
            o \in FamilyOperations, mid \in {<<EmptyTk>>, <<TagBx>>}}
    \cup {<<>>, <<NameQuotedEmpty, Value42p5, SourceTk>>}

(***************************************************************************)
(* The pipeline as a state machine: parse, partition, span recipes         *)
(***************************************************************************)
InitFamily ==
    /\ raw_df \in {<<Render(a), Render(b)>> : a \in FamilyInputs, b \in FamilyInputs}
    /\ parsed_df = <<>>
    /\ metrics_df = <<>>
    /\ histos_df = <<>>
    /\ spans_df = <<>>
    /\ span_recipes = {}
    /\ pc = "read"
    /\ ParserIdle
    /\ TemporalIdle
    /\ EstimatorIdle
    /\ RunIdle

\* WavefrontProfiler._parse_raw_data: parse every line, keep the rows
\* whose type is not null
ParseRawData ==
    /\ pc = "read"
    /\ parsed_df' = SelectSeq([i \in 1..Len(raw_df) |-> parse_line(raw_df[i])],
                              LAMBDA row : row # ReturnNone)
    /\ pc' = "parsed"
    /\ UNCHANGED <<raw_df, metrics_df, histos_df, spans_df, span_recipes>>
    /\ UNCHANGED <<parser_vars, temporal_vars, estimator_vars, run_vars>>

\* WavefrontProfiler._partition_by_type
PartitionByType ==
    /\ pc = "parsed"
    /\ metrics_df' = AddFamilyId(FilterType(parsed_df, "metric"))
    /\ histos_df' = AddFamilyId(FilterType(parsed_df, "histogram"))
    /\ spans_df' = FilterType(parsed_df, "span")
    /\ pc' = "partitioned"
    /\ UNCHANGED <<raw_df, parsed_df, span_recipes>>
    /\ UNCHANGED <<parser_vars, temporal_vars, estimator_vars, run_vars>>

\* WavefrontProfiler._generate_span_recipes
GenerateSpanRecipes ==
    /\ pc = "partitioned"
    /\ span_recipes' = {SpanRecipe(spans_df, operation) : operation \in Operations(spans_df)}
    /\ pc' = "recipes"
    /\ UNCHANGED <<raw_df, parsed_df, metrics_df, histos_df, spans_df>>
    /\ UNCHANGED <<parser_vars, temporal_vars, estimator_vars, run_vars>>

NextFamily == ParseRawData \/ PartitionByType \/ GenerateSpanRecipes

SpecFamily == InitFamily /\ [][NextFamily]_vars

(***************************************************************************)
(* Properties of the family ids (checked under SpecFamily)                 *)
(***************************************************************************)
Partitioned == pc \in {"partitioned", "recipes"}

C7_SpanNamespace ==
    pc = "recipes" =>
        /\ \A r \in span_recipes :
              r.family_id = PyStr(SpanPrefix \o Sha1Hex(r.metric_name.s))
        /\ \A i \in 1..Len(spans_df) :
              \E r \in span_recipes : r.metric_name = spans_df[i].operation
        /\ \A r1, r2 \in span_recipes :
              (r1.family_id = r2.family_id) <=> (r1.metric_name = r2.metric_name)
        /\ \A r \in span_recipes :
              /\ \A i \in 1..Len(metrics_df) : metrics_df[i].family_id # r.family_id
              /\ \A i \in 1..Len(histos_df) : histos_df[i].family_id # r.family_id

\* C7 witness: a span operation whose text is the very string hashed for
\* a metric row of the batch (a| and the metric a without tags), so that
\* only the namespace keeps the two ids apart.
C7_Witness ==
    /\ pc = "recipes"
    /\ \E r \in span_recipes :
          \E i \in 1..Len(metrics_df) :
              /\ Sha1Hex(r.metric_name.s) = metrics_df[i].family_id.s
              /\ r.family_id # metrics_df[i].family_id

(***************************************************************************)
(* Temporal patterns                                                       *)
(*                                                                         *)
(* Floats are kept exact here, as fractions in lowest terms.               *)
(***************************************************************************)
RECURSIVE GCD(_, _)
GCD(a, b) == IF b = 0 THEN a ELSE GCD(b, a % b)

\* n / d for n >= 0 and d > 0
Rat(n, d) == Bind(GCD(n, d), LAMBDA g : [num |-> n \div g, den |-> d \div g])

One == [num |-> 1, den |-> 1]
Zero == [num |-> 0, den |-> 1]

\* the square root of a fraction, kept symbolic
Sqrt(r) == [sqrt |-> r]

\* sum(s[a..b])
RECURSIVE SumRange(_, _, _)
SumRange(s, a, b) ==
    IF a > b THEN 0
    ELSE IF a = b THEN s[a]
    ELSE Bind((a + b) \div 2, LAMBDA mid : SumRange(s, a, mid) + SumRange(s, mid + 1, b))

Sum(s) == SumRange(s, 1, Len(s))

\* minutes of a day: the length the curve is forced to
CurveLength == 1440

\* Variant of Windowed: a minute without a record gets a bucket of count 0.
EveryMinute(records_per_minute) == records_per_minute

\* filter(timestamp is not null).groupBy(window(timestamp, "1 minute"))
\* .agg(count).orderBy("minute"), collected: one count per minute that
\* holds a record, in ascending order of the minute
Windowed(records_per_minute) == SelectSeq(records_per_minute, LAMBDA c : c > 0)

\* Variant of PadOrTruncate: the curve is left at the length it has.
LeaveAsIs(intensity_curve) == intensity_curve

\* Pad or truncate to 1440 minutes
PadOrTruncate(intensity_curve) ==
    IF Len(intensity_curve) < CurveLength
    THEN intensity_curve \o [i \in 1..(CurveLength - Len(intensity_curve)) |-> One]
    ELSE IF Len(intensity_curve) > CurveLength
    THEN SubSeq(intensity_curve, 1, CurveLength)
    ELSE intensity_curve

\* cv and fano of minute_counts with n entries, sum total and sum of
\* squares squares:  var = (n*squares - total^2) / n^2,  mean = total / n
Burstiness(n, total, squares) ==
    IF total > 0
    THEN [coefficient_of_variation |-> Sqrt(Rat(n * squares - total * total, total * total)),
          fano_factor |-> Rat(n * squares - total * total, n * total)]
    ELSE [coefficient_of_variation |-> Sqrt(Zero), fano_factor |-> One]

\* WavefrontProfiler._analyze_temporal_patterns, from the collected rows on
analyze_temporal_patterns(collected) ==
    Bind(IF collected = <<>> THEN [i \in 1..CurveLength |-> 1] ELSE collected,
         LAMBDA minute_counts :
    Bind(Len(minute_counts), LAMBDA n :
    Bind(Sum(minute_counts), LAMBDA total :
    Bind(Sum([i \in 1..n |-> minute_counts[i] * minute_counts[i]]), LAMBDA squares :
    Bind(IF total > 0
         THEN [i \in 1..n |-> Rat(minute_counts[i] * n, total)]
         ELSE [i \in 1..n |-> One],
         LAMBDA intensity_curve :
            [intensity_curve |-> PadOrTruncate(intensity_curve),
             burstiness |-> Burstiness(n, total, squares)])))))

(***************************************************************************)
(* Families for the temporal analysis: the timestamped records of each     *)
(* minute of a stretch of minutes follow a repeated pattern of counts.     *)
(***************************************************************************)
MaxPattern == 3
MaxCount == 2
MaxExtra == 2

Patterns == UNION {[1..k -> 0..MaxCount] : k \in 1..MaxPattern}

Stretches == (0..MaxExtra) \cup ((CurveLength - MaxExtra)..(CurveLength + MaxExtra))

Repeated(pattern, stretch) == [m \in 1..stretch |-> pattern[((m - 1) % Len(pattern)) + 1]]

TemporalInputs == {Repeated(pattern, stretch) : pattern \in Patterns, stretch \in Stretches}

InitTemporal ==
    /\ per_minute \in TemporalInputs
    /\ temporal = Pending
    /\ pc = "family"
    /\ ParserIdle
    /\ PipelineIdle
    /\ EstimatorIdle
    /\ RunIdle

\* "temporal": self._analyze_temporal_patterns(family_metrics, family_histos)
AnalyzeTemporalPatterns ==
    /\ pc = "family"
    /\ temporal' = analyze_temporal_patterns(Windowed(per_minute))
    /\ pc' = "analyzed"
    /\ UNCHANGED <<per_minute, parser_vars, pipeline_vars, estimator_vars, run_vars>>

NextTemporal == AnalyzeTemporalPatterns

SpecTemporal == InitTemporal /\ [][NextTemporal]_vars

(***************************************************************************)
(* Properties of the temporal analysis (checked under SpecTemporal)        *)
(***************************************************************************)
\* C10: whatever the number n of one-minute buckets (none, fewer than
\* 1440, exactly 1440, more), the intensity curve has exactly 1440
\* entries: the first min(n, 1440) are the bucket counts in ascending
\* minute order divided by the mean bucket count, the others are 1.0.
C10_CurveLength ==
    pc = "analyzed" =>
        Bind(Windowed(per_minute), LAMBDA counts :
        Bind(Sum(counts), LAMBDA total :
            /\ Len(temporal.intensity_curve) = CurveLength
            /\ \A i \in 1..CurveLength :
                  IF i <= Len(counts)
                  THEN temporal.intensity_curve[i].num * total
                          = counts[i] * Len(counts) * temporal.intensity_curve[i].den
                  ELSE temporal.intensity_curve[i] = One))

\* C10 witness: a family with more than 1440 buckets of unequal counts
\* has been analysed, and the curve was cut to 1440 entries.
C10_Witness ==
    /\ pc = "analyzed"
    /\ Len(Windowed(per_minute)) > CurveLength
    /\ Len(temporal.intensity_curve) = CurveLength
    /\ temporal.intensity_curve[1] # temporal.intensity_curve[2]

(***************************************************************************)
(* Categorical distributions                                               *)
(*                                                                         *)
(* A column is kept as the number of its null cells and, for every value   *)
(* (values are numbered), the number of cells that hold it.                *)
(***************************************************************************)
RECURSIVE ILog2(_)
ILog2(n) == IF n < 2 THEN 0 ELSE 1 + ILog2(n \div 2)

RECURSIVE Pow2(_)
Pow2(n) == IF n = 0 THEN 1 ELSE 2 * Pow2(n - 1)

\* the k leading binary places of log2(x / 16384) for 16384 <= x < 32768
RECURSIVE FracBits(_, _)
FracBits(x, k) ==
    IF k = 0 THEN 0
    ELSE Bind((x * x) \div 16384, LAMBDA y :
            IF y >= 32768
            THEN Pow2(k - 1) + FracBits(y \div 2, k - 1)
            ELSE FracBits(y, k - 1))

\* np.log2(n) for an integer n >= 1, in units of 1/1024
Log2Fixed(n) ==
    Bind(ILog2(n), LAMBDA e : e * 1024 + FracBits((n * 16384) \div Pow2(e), 10))

\* .limit(100): the number of values kept
TopValues == 100

Reverse(seq) == [i \in 1..Len(seq) |-> seq[Len(seq) + 1 - i]]

\* the rows of groupBy(column).count() whose count is c, in the order tie
RowsWithCount(counts, c, tie) ==
    Bind(SelectSeq([v \in 1..Len(counts) |-> [value |-> v, count |-> counts[v]]],
                   LAMBDA row : row.count = c),
         LAMBDA rows : IF tie = "ascending" THEN rows ELSE Reverse(rows))

\* .orderBy(col("count").desc()): rows of equal count come in the order
\* tie, which the query leaves open
RECURSIVE OrderByCountDesc(_, _, _)
OrderByCountDesc(counts, c, tie) ==
    IF c = 0 THEN <<>>
    ELSE RowsWithCount(counts, c, tie) \o OrderByCountDesc(counts, c - 1, tie)

\* Variant of Limit: every row is kept.
NoLimit(rows) == rows

\* .limit(100)
Limit(rows) == SubSeq(rows, 1, IF Len(rows) < TopValues THEN Len(rows) ELSE TopValues)

\* the value counts collected at lines 581-587
ValueCounts(counts, tie) ==
    Limit(OrderByCountDesc(counts, Max({0} \cup {counts[v] : v \in 1..Len(counts)}), tie))

\* the entropy loop: the sum over the rows of - p * np.log2(p) for
\* p = count / total_count, times 1024 * total_count
EntropyFrom(value_counts, total_count) ==
    Bind(Log2Fixed(total_count), LAMBDA log_total :
        Sum([i \in 1..Len(value_counts) |->
                value_counts[i].count * (log_total - Log2Fixed(value_counts[i].count))]))

\* WavefrontProfiler._compute_categorical_distribution
compute_categorical_distribution(column, tie) ==
    Bind(column.nulls + Sum(column.counts), LAMBDA total_count :
        IF total_count = 0
        THEN [top_values |-> <<>>, total_count |-> 0, entropy |-> Zero]
        ELSE Bind(ValueCounts(column.counts, tie), LAMBDA value_counts :
                [top_values |->
                    [i \in 1..Len(value_counts) |->
                        [value |-> value_counts[i].value,
                         frequency |-> Rat(value_counts[i].count, total_count)]],
                 total_count |-> Len(value_counts),
                 entropy |-> Rat(EntropyFrom(value_counts, total_count),
                                 total_count * 1024)]))

(***************************************************************************)
(* Columns: a stretch of values whose cell counts follow a repeated        *)
(* pattern, and some null cells.                                           *)
(***************************************************************************)
MaxNulls == 1
MaxColumnPattern == 2

ColumnPatterns == UNION {[1..k -> 0..MaxCount] : k \in 1..MaxColumnPattern}

ColumnStretches == (0..MaxExtra) \cup ((TopValues - MaxExtra)..(TopValues + MaxExtra))

Columns ==
    {[nulls |-> n, counts |-> Repeated(pattern, stretch)] :
        n \in 0..MaxNulls, pattern \in ColumnPatterns, stretch \in ColumnStretches}

InitCategorical ==
    /\ sample \in Columns
    /\ estimate = Pending
    /\ pc = "column"
    /\ ParserIdle
    /\ PipelineIdle
    /\ TemporalIdle
    /\ RunIdle

\* self._compute_categorical_distribution(metrics_df, column)
ComputeCategoricalDistribution ==
    /\ pc = "column"
    /\ \E tie \in {"ascending", "descending"} :
          estimate' = compute_categorical_distribution(sample, tie)
    /\ pc' = "distributed"
    /\ UNCHANGED <<sample, parser_vars, pipeline_vars, temporal_vars, run_vars>>

NextCategorical == ComputeCategoricalDistribution

SpecCategorical == InitCategorical /\ [][NextCategorical]_vars

(***************************************************************************)
(* Properties of the categorical distribution (under SpecCategorical)      *)
(***************************************************************************)
\* at most 100 top values, by count descending, frequencies in [0,1],
\* entropy >= 0
DistributionBounds ==
    /\ Len(estimate.top_values) <= TopValues
    /\ \A i \in 1..Len(estimate.top_values) :
          /\ estimate.top_values[i].frequency.num >= 0
          /\ estimate.top_values[i].frequency.num <= estimate.top_values[i].frequency.den
          /\ i > 1 =>
                estimate.top_values[i].frequency.num * estimate.top_values[i - 1].frequency.den
                   <= estimate.top_values[i - 1].frequency.num * estimate.top_values[i].frequency.den
          /\ sample.counts[estimate.top_values[i].value] * estimate.top_values[i].frequency.den
                = estimate.top_values[i].frequency.num * (sample.nulls + Sum(sample.counts))
    /\ estimate.entropy.num >= 0

\* C11 (as stated): for every column, empty and with nulls included, the
\* distribution has at most 100 top values by count descending, all
\* frequencies in [0,1], entropy >= 0, and entropy = 0 exactly when one
\* distinct value is returned.
C11_EntropyZeroIffOneValue ==
    pc = "distributed" =>
        /\ DistributionBounds
        /\ (estimate.entropy = Zero) <=> (Len(estimate.top_values) = 1)

\* C11 (amended): the same bounds, and entropy = 0 exactly when no value
\* is returned (empty or all-null column) or one distinct value is
\* returned and the column has no null cell.
C11_EntropyZeroIffAllOrNothing ==
    pc = "distributed" =>
        /\ DistributionBounds
        /\ (estimate.entropy = Zero)
              <=> \/ Len(estimate.top_values) = 0
                  \/ Len(estimate.top_values) = 1 /\ sample.nulls = 0

\* C11 witness: a column with one distinct value and a null cell: one
\* value is returned, with a frequency below 1 and an entropy above 0.
C11_Witness ==
    /\ pc = "distributed"
    /\ sample.nulls > 0
    /\ Len(estimate.top_values) = 1
    /\ estimate.top_values[1].frequency # One
    /\ estimate.entropy.num > 0

(***************************************************************************)
(* Tag type inference                                                      *)
(***************************************************************************)
\* .limit(1000)
SampleLimit == 1000

HexLower == Digits \cup {"a", "b", "c", "d", "e", "f"}

\* ^[a-f0-9]{8}-[a-f0-9]{4}-[a-f0-9]{4}-[a-f0-9]{4}-[a-f0-9]{12}$
UuidDashes == {9, 14, 19, 24}
IsUuid(value) ==
    /\ Len(value) = 36
    /\ \A i \in 1..Len(value) :
          IF i \in UuidDashes THEN value[i] = "-" ELSE value[i] \in HexLower

\* ^[a-zA-Z0-9]{20,}$
LongIdLength == 20
IsLongAlnum(value) ==
    /\ Len(value) >= LongIdLength
    /\ \A i \in 1..Len(value) : value[i] \in AsciiAlnum

\* ^[a-zA-Z]+-[a-zA-Z0-9-]+$
IsKebab(value) ==
    Bind(RunEnd(value, 1, LowerLetters \cup UpperLetters), LAMBDA dash :
        /\ dash > 1
        /\ dash < Len(value)
        /\ value[dash] = "-"
        /\ RunEnd(value, dash + 1, AsciiAlnum \cup {"-"}) = Len(value) + 1)

\* some pattern of identifier_patterns matches
MatchesIdentifier(value) == IsUuid(value) \/ IsLongAlnum(value) \/ IsKebab(value)

\* float(value) does not raise
FloatParses(value) == ~IsRaise(PyFloatOf(Strip(value)))

\* Variant of Above80: the threshold is met when reached.
AtLeast80(k, n) == 5 * k >= 4 * n

\* k / n > 0.8
Above80(k, n) == 5 * k > 4 * n

\* Variant of Above50: the threshold is met when reached.
AtLeast50(k, n) == 2 * k >= n

\* k / n > 0.5
Above50(k, n) == 2 * k > n

\* the decisions of _infer_tag_type on the collected values
TagTypeOf(values) ==
    IF values = <<>> THEN "categorical"
    ELSE IF Above80(Len(SelectSeq(values, FloatParses)), Len(values)) THEN "numeric"
    ELSE IF Above50(Len(SelectSeq(values, MatchesIdentifier)), Len(values)) THEN "identifier"
    ELSE IF Above80(Cardinality({values[i] : i \in 1..Len(values)}), Len(values)) THEN "text"
    ELSE "categorical"

\* WavefrontProfiler._infer_tag_type on the cells of a tag column
infer_tag_type(cells) ==
    Bind(SelectSeq(cells, LAMBDA cell : cell.text # PyNone), LAMBDA not_null :
    Bind(SubSeq(not_null, 1, IF Len(not_null) < SampleLimit THEN Len(not_null) ELSE SampleLimit),
         LAMBDA samples :
            TagTypeOf([i \in 1..Len(samples) |-> samples[i].text.s])))

(***************************************************************************)
(* Tag columns. A cell carries, beside its text, what kind of value it     *)
(* is: "numeric", "identifier", "plain" or "null".                         *)
(***************************************************************************)
Cell(kind, text) == [kind |-> kind, text |-> PyStr(text)]

NullCell == [kind |-> "null", text |-> PyNone]
CellOne == Cell("numeric", <<"1">>)
CellTwoPointFive == Cell("numeric", <<"2", ".", "5">>)
CellKebab == Cell("identifier", <<"a", "b", "-", "c">>)
CellUuid == Cell("identifier",
                 <<"0", "1", "2", "3", "4", "5", "6", "7", "-", "8", "9", "a", "b", "-",
                   "c", "d", "e", "f", "-", "0", "1", "2", "3", "-",
                   "4", "5", "6", "7", "8", "9", "a", "b", "c", "d", "e", "f">>)
CellLongId == Cell("identifier",
                   <<"A", "b", "c", "d", "e", "f", "g", "h", "i", "j",
                     "0", "1", "2", "3", "4", "5", "6", "7", "8", "9">>)
\* nineteen characters: one short of a long id
CellShortId == Cell("plain",
                    <<"A", "b", "c", "d", "e", "f", "g", "h", "i", "j",
                      "0", "1", "2", "3", "4", "5", "6", "7", "8">>)
CellX == Cell("plain", <<"x">>)
CellY == Cell("plain", <<"y">>)
CellZ == Cell("plain", <<"z">>)

CommonCells == {NullCell, CellOne, CellKebab, CellX, CellY, CellZ}
RareCells == {CellTwoPointFive, CellUuid, CellLongId, CellShortId}

MaxSamples == 5
MaxRareSamples == 2

TagColumns ==
    SeqsUpTo(CommonCells, MaxSamples) \cup SeqsUpTo(CommonCells \cup RareCells, MaxRareSamples)

InitTagType ==
    /\ sample \in TagColumns
    /\ estimate = Pending
    /\ pc = "tag"
    /\ ParserIdle
    /\ PipelineIdle
    /\ TemporalIdle
    /\ RunIdle

\* tag_type = self._infer_tag_type(df, key)
InferTagType ==
    /\ pc = "tag"
    /\ estimate' = [type |-> "tag_type", value |-> infer_tag_type(sample)]
    /\ pc' = "inferred"
    /\ UNCHANGED <<sample, parser_vars, pipeline_vars, temporal_vars, run_vars>>

NextTagType == InferTagType

SpecTagType == InitTagType /\ [][NextTagType]_vars

(***************************************************************************)
(* Properties of the tag type inference (under SpecTagType)                *)
(***************************************************************************)
CountCells(kind) == Cardinality({i \in 1..Len(sample) : sample[i].kind = kind})
NonNull == Len(sample) - CountCells("null")
DistinctTexts == Cardinality({sample[i].text : i \in 1..Len(sample)} \ {PyNone})

\* C12 (as stated): the decision order with inclusive thresholds: empty
\* sample 'categorical'; else 'numeric' if at least 80% parse as a float;
\* else 'identifier' if at least 50% have an identifier shape; else
\* 'text' if the distinct ratio is strictly above 0.8; else 'categorical'.
C12_InclusiveThresholds ==
    pc = "inferred" =>
        estimate.value =
            IF NonNull = 0 THEN "categorical"
            ELSE IF 5 * CountCells("numeric") >= 4 * NonNull THEN "numeric"
            ELSE IF 2 * CountCells("identifier") >= NonNull THEN "identifier"
            ELSE IF 5 * DistinctTexts > 4 * NonNull THEN "text"
            ELSE "categorical"

\* C12 (amended): the same decision order with strict thresholds:
\* 'numeric' if more than 80% parse as a float (exactly 4 of 5 is not
\* numeric); else 'identifier' if more than 50% have an identifier shape
\* (exactly 1 of 2 is not identifier); else 'text' if the distinct ratio
\* is strictly above 0.8; else 'categorical'.
C12_StrictThresholds ==
    pc = "inferred" =>
        estimate.value =
            IF NonNull = 0 THEN "categorical"
            ELSE IF 5 * CountCells("numeric") > 4 * NonNull THEN "numeric"
            ELSE IF 2 * CountCells("identifier") > NonNull THEN "identifier"
            ELSE IF 5 * DistinctTexts > 4 * NonNull THEN "text"
            ELSE "categorical"

\* C12 witness: exactly 4 of 5 samples are numeric, and the type found
\* is not 'numeric'.
C12_Witness ==
    /\ pc = "inferred"
    /\ NonNull = 5
    /\ CountCells("numeric") = 4
    /\ estimate.value # "numeric"

(***************************************************************************)
(* run_profiling as a state machine. The families and the span operations  *)
(* of the batch are given, and so is the set of calls that raise; written  *)
(* lists, in order, the paths written under output_path.                   *)
(***************************************************************************)
Step(name) == [step |-> name]
Family(i) == [family |-> i]
Operation(i) == [operation |-> i]
Path(dir, name) == [dir |-> dir, name |-> name]

\* f"{output_path}/recipes/{family_id}.json.zst"
RecipePath(family) == Path("recipes", family)
\* f"{output_path}/spans/{recipe['family_id']}.json"
SpanRecipePath(operation) == Path("spans", operation)
\* f"{output_path}/reports/profile_qa.html"
QaHtmlPath == Path("reports", [file |-> "profile_qa.html"])
\* f"{output_path}/reports/qa_summary.json"
QaSummaryPath == Path("reports", [file |-> "qa_summary.json"])
\* f"{output_path}/_PROFILE_OK"
MarkerPath == Path("", [file |-> "_PROFILE_OK"])

MaxFamilies == 2
MaxOperations == 2

\* the calls of run_profiling and _generate_recipes that may raise, beside
\* the recipe of one family and the recipe of one operation
Steps == {Step("parse"), Step("partition"), Step("families"), Step("spans"), Step("qa")}

\* the lists of at most n distinct members of a set
DistinctSeqs(S, n) ==
    {q \in SeqsUpTo(S, n) : \A i, j \in 1..Len(q) : i # j => q[i] # q[j]}

Members(q) == {q[i] : i \in 1..Len(q)}

InitRun ==
    /\ families \in DistinctSeqs({Family(i) : i \in 1..MaxFamilies}, MaxFamilies)
    /\ operations \in DistinctSeqs({Operation(i) : i \in 1..MaxOperations}, MaxOperations)
    \* a run ends at the first step that raises: at most one is drawn
    /\ \E first \in {{}} \cup {{st} : st \in Steps} :
       \E failing \in SUBSET (Members(families) \cup Members(operations)) :
            raising = first \cup failing
    /\ cursor = 0
    /\ steps_done = <<>>
    /\ written = <<>>
    /\ outcome = "running"
    /\ pc = "parse"
    /\ ParserIdle
    /\ PipelineIdle
    /\ TemporalIdle
    /\ EstimatorIdle

\* Variant of Propagate: the exception is swallowed and the run goes on to
\* the completion marker.
Swallow ==
    /\ outcome' = "running"
    /\ pc' = "marker"
    /\ UNCHANGED <<cursor, steps_done, written>>

\* an exception leaves run_profiling
Propagate ==
    /\ outcome' = "raised"
    /\ pc' = "raised"
    /\ UNCHANGED <<cursor, steps_done, written>>

\* parsed_df = self._parse_raw_data(input_path, temp_path)
ParseStep ==
    /\ pc = "parse"
    /\ IF Step("parse") \in raising THEN Propagate
       ELSE /\ steps_done' = Append(steps_done, "parse")
            /\ pc' = "partition"
            /\ UNCHANGED <<cursor, written, outcome>>
    /\ UNCHANGED <<families, operations, raising>>
    /\ UNCHANGED <<parser_vars, pipeline_vars, temporal_vars, estimator_vars>>

\* metrics_df, histos_df, spans_df = self._partition_by_type(parsed_df, temp_path)
PartitionStep ==
    /\ pc = "partition"
    /\ IF Step("partition") \in raising THEN Propagate
       ELSE /\ steps_done' = Append(steps_done, "partition")
            /\ pc' = "families"
            /\ UNCHANGED <<cursor, written, outcome>>
    /\ UNCHANGED <<families, operations, raising>>
    /\ UNCHANGED <<parser_vars, pipeline_vars, temporal_vars, estimator_vars>>

\* _generate_recipes: metrics_df.count() > 0 and the list of the families
ListFamilies ==
    /\ pc = "families"
    /\ IF Step("families") \in raising THEN Propagate
       ELSE /\ cursor' = IF families = <<>> THEN 0 ELSE 1
            /\ pc' = IF families = <<>> THEN "spans" ELSE "family"
            /\ UNCHANGED <<steps_done, written, outcome>>
    /\ UNCHANGED <<families, operations, raising>>
    /\ UNCHANGED <<parser_vars, pipeline_vars, temporal_vars, estimator_vars>>

\* Variant of FamilyRecipeStep's handler: the exception of a family is not caught.
FamilyRaisesOut(family) == Propagate

\* except Exception as e: logger.error(...), and on to the next family
FamilyRaisesCaught(family) ==
    /\ cursor' = IF cursor = Len(families) THEN 0 ELSE cursor + 1
    /\ pc' = IF cursor = Len(families) THEN "spans" ELSE "family"
    /\ UNCHANGED <<steps_done, written, outcome>>

\* one turn of "for family in families": the recipe of the family is built
\* and written, or its exception is caught
FamilyRecipeStep ==
    /\ pc = "family"
    /\ IF families[cursor] \in raising THEN FamilyRaisesCaught(families[cursor])
       ELSE /\ written' = Append(written, RecipePath(families[cursor]))
            /\ cursor' = IF cursor = Len(families) THEN 0 ELSE cursor + 1
            /\ pc' = IF cursor = Len(families) THEN "spans" ELSE "family"
            /\ UNCHANGED <<steps_done, outcome>>
    /\ UNCHANGED <<families, operations, raising>>
    /\ UNCHANGED <<parser_vars, pipeline_vars, temporal_vars, estimator_vars>>

\* spans_df.count() > 0 and, in _generate_span_recipes, the list of the
\* operations; with no span, _generate_recipes returns
ListOperations ==
    /\ pc = "spans"
    /\ IF Step("spans") \in raising THEN Propagate
       ELSE /\ cursor' = IF operations = <<>> THEN 0 ELSE 1
            /\ pc' = IF operations = <<>> THEN "qa" ELSE "span"
            /\ steps_done' = IF operations = <<>> THEN Append(steps_done, "recipes")
                             ELSE steps_done
            /\ UNCHANGED <<written, outcome>>
    /\ UNCHANGED <<families, operations, raising>>
    /\ UNCHANGED <<parser_vars, pipeline_vars, temporal_vars, estimator_vars>>

\* Variant of SpanRaisesOut: the exception of an operation is caught and
\* the loop goes on.
SpanRaisesCaught(operation) ==
    /\ cursor' = IF cursor = Len(operations) THEN 0 ELSE cursor + 1
    /\ pc' = IF cursor = Len(operations) THEN "qa" ELSE "span"
    /\ steps_done' = IF cursor = Len(operations) THEN Append(steps_done, "recipes")
                     ELSE steps_done
    /\ UNCHANGED <<written, outcome>>

\* no handler in _generate_span_recipes, _generate_recipes or run_profiling
SpanRaisesOut(operation) == Propagate

\* one turn of "for op_row in operations"
SpanRecipeStep ==
    /\ pc = "span"
    /\ IF operations[cursor] \in raising THEN SpanRaisesOut(operations[cursor])
       ELSE /\ written' = Append(written, SpanRecipePath(operations[cursor]))
            /\ cursor' = IF cursor = Len(operations) THEN 0 ELSE cursor + 1
            /\ pc' = IF cursor = Len(operations) THEN "qa" ELSE "span"
            /\ steps_done' = IF cursor = Len(operations) THEN Append(steps_done, "recipes")
                             ELSE steps_done
            /\ UNCHANGED outcome
    /\ UNCHANGED <<families, operations, raising>>
    /\ UNCHANGED <<parser_vars, pipeline_vars, temporal_vars, estimator_vars>>

\* self._generate_qa_reports(metrics_df, histos_df, spans_df, output_path)
GenerateQaReports ==
    /\ pc = "qa"
    /\ IF Step("qa") \in raising THEN Propagate
       ELSE /\ written' = written \o <<QaHtmlPath, QaSummaryPath>>
            /\ steps_done' = Append(steps_done, "qa")
            /\ pc' = "marker"
            /\ UNCHANGED <<cursor, outcome>>
    /\ UNCHANGED <<families, operations, raising>>
    /\ UNCHANGED <<parser_vars, pipeline_vars, temporal_vars, estimator_vars>>

\* self._write_completion_marker(output_path), and run_profiling returns
WriteCompletionMarker ==
    /\ pc = "marker"
    /\ written' = Append(written, MarkerPath)
    /\ steps_done' = Append(steps_done, "marker")
    /\ outcome' = "returned"
    /\ pc' = "returned"
    /\ UNCHANGED <<families, operations, raising, cursor>>
    /\ UNCHANGED <<parser_vars, pipeline_vars, temporal_vars, estimator_vars>>

NextRun ==
    \/ ParseStep
    \/ PartitionStep
    \/ ListFamilies
    \/ FamilyRecipeStep
    \/ ListOperations
    \/ SpanRecipeStep
    \/ GenerateQaReports
    \/ WriteCompletionMarker

SpecRun == InitRun /\ [][NextRun]_vars

(***************************************************************************)
(* Properties of the run (under SpecRun)                                   *)
(***************************************************************************)
Written(path) == \E i \in 1..Len(written) : written[i] = path
FamilyLoopOver == pc \in {"spans", "span", "qa", "marker", "returned"}
OnlyFamiliesRaise == raising \subseteq Members(families)

\* C13: a family whose recipe building raises gets no recipe; once the
\* loop over the families is over, every other family of the list has its
\* recipe written; and when nothing but families raises, the run is never
\* abandoned: it can always take its next step until it has returned, and
\* then the span recipes, the QA reports and the marker are written.
C13_FamilyIsolation ==
    /\ \A i \in 1..Len(families) :
          /\ families[i] \in raising => ~Written(RecipePath(families[i]))
          /\ (FamilyLoopOver /\ families[i] \notin raising) => Written(RecipePath(families[i]))
    /\ OnlyFamiliesRaise =>
          /\ outcome # "raised"
          /\ outcome = "running" => ENABLED NextRun
          /\ outcome = "returned" =>
                /\ \A j \in 1..Len(operations) : Written(SpanRecipePath(operations[j]))
                /\ Written(QaHtmlPath)
                /\ Written(QaSummaryPath)
                /\ Written(MarkerPath)

\* C13 witness: of two families the first raises and the second does
\* not; the run has returned with the recipe of the second, the QA
\* reports and the marker.
C13_Witness ==
    /\ outcome = "returned"
    /\ Len(families) = 2
    /\ families[1] \in raising
    /\ families[2] \notin raising
    /\ Written(RecipePath(families[2]))
    /\ Written(MarkerPath)

\* C14: the completion marker is written at most once, and only when the
\* parse, partition, recipe and QA steps have finished, in that order; a
\* run that an exception has left has written no marker.
C14_MarkerLast ==
    /\ Cardinality({i \in 1..Len(written) : written[i] = MarkerPath}) <= 1
    /\ Written(MarkerPath) =>
          steps_done = <<"parse", "partition", "recipes", "qa", "marker">>
    /\ pc = "marker" => steps_done = <<"parse", "partition", "recipes", "qa">>
    /\ outcome = "raised" => ~Written(MarkerPath)

\* C14 witness: a run has returned and its last write is the marker.
C14_Witness ==
    /\ outcome = "returned"
    /\ written # <<>>
    /\ written[Len(written)] = MarkerPath

\* the run was left by the exception of the span operation under the cursor
SpanFailure == pc = "raised" /\ cursor >= 1

\* C20: the exception of a span operation leaves run_profiling: a run
\* with a raising operation never reaches the QA reports; when it is left
\* at an operation, that operation and the ones after it have no recipe,
\* no QA report and no marker is written, and the recipe of every family
\* that did not raise is still among the written paths.
C20_SpanFailurePropagates ==
    /\ (\E j \in 1..Len(operations) : operations[j] \in raising) =>
          pc \notin {"qa", "marker", "returned"}
    /\ SpanFailure =>
          /\ operations[cursor] \in raising
          /\ \A j \in cursor..Len(operations) : ~Written(SpanRecipePath(operations[j]))
          /\ \A j \in 1..(cursor - 1) : Written(SpanRecipePath(operations[j]))
          /\ ~Written(QaHtmlPath)
          /\ ~Written(QaSummaryPath)
          /\ ~Written(MarkerPath)
          /\ \A i \in 1..Len(families) :
                families[i] \notin raising => Written(RecipePath(families[i]))

\* C20 witness: the first of two operations raises after a family recipe
\* was written; the second operation is left without a recipe.
C20_Witness ==
    /\ SpanFailure
    /\ cursor = 1
    /\ Len(operations) = 2
    /\ \E i \in 1..Len(families) : Written(RecipePath(families[i]))
    /\ ~Written(SpanRecipePath(operations[2]))

(***************************************************************************)
(* Validation metrics of a family recipe                                   *)
(***************************************************************************)
\* metrics_df.filter(col("family_id") == family_id)
FilterFamily(df, family_id) == SelectSeq(df, LAMBDA row : row.family_id = family_id)

\* WavefrontProfiler._compute_validation_metrics
compute_validation_metrics(df) ==
    Bind(Len(df), LAMBDA total_count :
    Bind(Len(SelectSeq(df, LAMBDA row : row.type # "error")), LAMBDA valid_count :
        [coverage |-> IF total_count > 0 THEN Rat(valid_count, total_count) ELSE Zero,
         parse_error |-> total_count - valid_count,
         missing_source |-> 0,
         invalid_value |-> 0]))

\* _generate_family_recipe for one family of metrics_df: its "validation"
\* entry, computed on family_metrics
GenerateFamilyRecipe ==
    /\ pc = "partitioned"
    /\ \E i \in 1..Len(metrics_df) :
          estimate' = [type |-> "validation",
                       family_id |-> metrics_df[i].family_id,
                       validation |-> compute_validation_metrics(
                                          FilterFamily(metrics_df, metrics_df[i].family_id))]
    /\ pc' = "validated"
    /\ UNCHANGED <<sample, pipeline_vars, parser_vars, temporal_vars, run_vars>>

NextValidation == ParseRawData \/ PartitionByType \/ GenerateFamilyRecipe

\* the pipeline up to the validation entry of one family recipe
SpecValidation == InitFamily /\ [][NextValidation]_vars

(***************************************************************************)
(* Properties of the validation metrics (under SpecValidation)             *)
(***************************************************************************)
ErrorRecords == Len(FilterType(parsed_df, "error"))

\* C15: the coverage of a recipe is valid_count / total_count over all the
\* parsed records of the batch, error records counted in total_count only,
\* and its parse_error drop count is the number of error records.
C15_CoverageCountsErrors ==
    pc = "validated" =>
        /\ estimate.validation.coverage =
              Rat(Len(parsed_df) - ErrorRecords, Len(parsed_df))
        /\ estimate.validation.parse_error = ErrorRecords

\* C15 witness: a batch of one metric line and one line parsed into an
\* error record; the coverage reported for the family is 1 and its
\* parse_error count is 0.
C15_Witness ==
    /\ pc = "validated"
    /\ Len(parsed_df) = 2
    /\ ErrorRecords = 1
    /\ estimate.validation.coverage = One
    /\ estimate.validation.parse_error = 0

(***************************************************************************)
(* String patterns                                                         *)
(***************************************************************************)
\* the text the template r'\\d+' stands for: a backslash, d, +
DigitRun == <<Backslash, "d", "+">>
LowerRun == <<"[", "a", "-", "z", "]", "+">>
UpperRun == <<"[", "A", "-", "Z", "]", "+">>

\* re.sub(class+, repl, s) from position i on: every maximal run of the
\* class is replaced, the rest is copied
RECURSIVE ReSubFrom(_, _, _, _)
ReSubFrom(s, i, class, repl) ==
    IF i > Len(s) THEN <<>>
    ELSE IF s[i] \in class THEN repl \o ReSubFrom(s, RunEnd(s, i, class), class, repl)
    ELSE <<s[i]>> \o ReSubFrom(s, i + 1, class, repl)

ReSub(class, repl, s) == ReSubFrom(s, 1, class, repl)

\* WavefrontProfiler._generalize_string: three substitutions, each on the
\* result of the one before
generalize_string(s) ==
    ReSub(UpperLetters, UpperRun, ReSub(LowerLetters, LowerRun, ReSub(Digits, DigitRun, s)))

\* values[:10]
PatternExamples == 10
\* patterns[:5]
TopPatterns == 5

\* values.count(value)
Count(values, value) == Cardinality({j \in 1..Len(values) : values[j] = value})

\* WavefrontProfiler._extract_patterns_from_values
extract_patterns_from_values(values) ==
    IF values = <<>> THEN <<>>
    ELSE Bind([i \in 1..Min({Len(values), PatternExamples}) |->
                  [pattern |-> generalize_string(values[i]),
                   frequency |-> Rat(Count(values, values[i]), Len(values))]],
              LAMBDA patterns : SubSeq(patterns, 1, Min({Len(patterns), TopPatterns})))

(***************************************************************************)
(* One call of _generalize_string                                          *)
(***************************************************************************)
MaxString == 4
StringChars == {"a", "d", "B", "1", "-"}

InitGeneralize ==
    /\ sample \in SeqsUpTo(StringChars, MaxString)
    /\ estimate = Pending
    /\ pc = "string"
    /\ ParserIdle
    /\ PipelineIdle
    /\ TemporalIdle
    /\ RunIdle

\* pattern = self._generalize_string(value)
GeneralizeString ==
    /\ pc = "string"
    /\ estimate' = [type |-> "pattern", pattern |-> generalize_string(sample)]
    /\ pc' = "generalized"
    /\ UNCHANGED <<sample, parser_vars, pipeline_vars, temporal_vars, run_vars>>

NextGeneralize == GeneralizeString

SpecGeneralize == InitGeneralize /\ [][NextGeneralize]_vars

(***************************************************************************)
(* One call of _extract_patterns_from_values                               *)
(***************************************************************************)
MaxValues == 6
SampledValues == {<<"a">>, <<"b">>, <<"B">>, <<"a", "1">>}

InitPatterns ==
    /\ sample \in SeqsUpTo(SampledValues, MaxValues)
    /\ estimate = Pending
    /\ pc = "values"
    /\ ParserIdle
    /\ PipelineIdle
    /\ TemporalIdle
    /\ RunIdle

\* patterns["tag_value_patterns"][key] = self._extract_patterns_from_values(values)
ExtractPatterns ==
    /\ pc = "values"
    /\ estimate' = [type |-> "patterns", patterns |-> extract_patterns_from_values(sample)]
    /\ pc' = "extracted"
    /\ UNCHANGED <<sample, parser_vars, pipeline_vars, temporal_vars, run_vars>>

NextPatterns == ExtractPatterns

SpecPatterns == InitPatterns /\ [][NextPatterns]_vars

(***************************************************************************)
(* Properties of the string patterns                                       *)
(***************************************************************************)
\* every maximal run of the input replaced by its placeholder, in one pass
RECURSIVE RunsReplaced(_, _)
RunsReplaced(s, i) ==
    IF i > Len(s) THEN <<>>
    ELSE IF s[i] \in Digits THEN DigitRun \o RunsReplaced(s, RunEnd(s, i, Digits))
    ELSE IF s[i] \in LowerLetters THEN LowerRun \o RunsReplaced(s, RunEnd(s, i, LowerLetters))
    ELSE IF s[i] \in UpperLetters THEN UpperRun \o RunsReplaced(s, RunEnd(s, i, UpperLetters))
    ELSE <<s[i]>> \o RunsReplaced(s, i + 1)

\* C16 (under SpecPatterns): at most 5 entries, none for an empty list;
\* entry i is the generalization of the i-th value, equal patterns are
\* kept; the frequency of an entry is the fraction of the sampled values
\* that generalize to its pattern.
C16_PatternFrequency ==
    pc = "extracted" =>
        /\ Len(estimate.patterns) = Min({Len(sample), TopPatterns})
        /\ \A i \in 1..Len(estimate.patterns) :
              /\ estimate.patterns[i].pattern = generalize_string(sample[i])
              /\ estimate.patterns[i].frequency =
                    Rat(Cardinality({j \in 1..Len(sample) :
                            generalize_string(sample[j]) = estimate.patterns[i].pattern}),
                        Len(sample))

\* C16 witness: the values a and b generalize to one pattern, and each of
\* the two entries has the frequency 1/2.
C16_Witness ==
    /\ pc = "extracted"
    /\ sample = <<<<"a">>, <<"b">>>>
    /\ Len(estimate.patterns) = 2
    /\ estimate.patterns[1].pattern = estimate.patterns[2].pattern
    /\ estimate.patterns[1].frequency = Rat(1, 2)
    /\ estimate.patterns[2].frequency = Rat(1, 2)

\* C18 (under SpecGeneralize): the pattern is the input with every maximal
\* digit run replaced by the numeric-run placeholder and every maximal
\* lowercase or uppercase run by its character-class placeholder, the
\* other characters unchanged.
C18_RunsReplaced ==
    pc = "generalized" => estimate.pattern = RunsReplaced(sample, 1)

\* C18 witness: for the input a1 the d of the numeric-run placeholder has
\* itself been replaced by the lowercase placeholder.
C18_Witness ==
    /\ pc = "generalized"
    /\ sample = <<"a", "1">>
    /\ estimate.pattern = LowerRun \o <<Backslash>> \o LowerRun \o <<"+">>

(***************************************************************************)
(* The timestamp of a metric line (under SpecParse)                        *)
(***************************************************************************)
\* <name> <value> and any tokens after them, bare name
MetricShaped(ts) ==
    /\ Len(ts) >= 2
    /\ ts[1].kind = "bare"
    /\ ts[2].kind = "float"

\* the first standalone ten-digit token, None when there is none
FirstTimestampToken(ts) ==
    IF \E i \in 1..Len(ts) : ts[i].kind = "ts"
    THEN ts[Min({i \in 1..Len(ts) : ts[i].kind = "ts"})].int
    ELSE PyNone

\* C17: the timestamp of a metric record is the first standalone
\* ten-digit token after the value, None when the line has none; the ten
\* digits of the tag id=1234567890 are never the timestamp, and the tag
\* keeps them as its value.
C17_TimestampStandalone ==
    (Done /\ MetricShaped(toks) /\ parsed.type = "metric") =>
        /\ parsed.timestamp = FirstTimestampToken(toks)
        /\ (\E j \in 1..Len(toks) : toks[j] = TagId) =>
              <<TagId.key, PyStr(TagId.val)>> \in DictPairs(parsed.tags)

\* C17 witness: cpu.load 42.5 source=web-01 id=1234567890 has no
\* standalone timestamp; its record has the timestamp 1234567890 and no
\* tag id.
C17_Witness ==
    /\ Done
    /\ toks = <<NameCpuLoad, Value42p5, SourceTk, TagId>>
    /\ parsed.type = "metric"
    /\ parsed.timestamp = PyInt(1234567890)
    /\ \A j \in 1..Len(parsed.tags) : parsed.tags[j][1] # TagId.key

(***************************************************************************)
(* The burstiness of a family (under SpecTemporal)                         *)
(***************************************************************************)
\* what line 695 and line 696 give when the mean is not above zero
MeanZeroDefault == [coefficient_of_variation |-> Sqrt(Zero), fano_factor |-> One]

\* C19: every one-minute bucket of a family counts at least one record,
\* so the burstiness is never the pair (0, 1) of the mean-is-zero branch;
\* a family without a timestamped record gets 1440 counts of 1: a curve of
\* 1440 entries 1.0, coefficient_of_variation 0 and fano_factor 0.
C19_MeanNeverZero ==
    pc = "analyzed" =>
        Bind(Windowed(per_minute), LAMBDA counts :
            /\ \A i \in 1..Len(counts) : counts[i] >= 1
            /\ temporal.burstiness # MeanZeroDefault
            /\ counts = <<>> =>
                  /\ temporal.intensity_curve = [i \in 1..CurveLength |-> One]
                  /\ temporal.burstiness.coefficient_of_variation = Sqrt(Zero)
                  /\ temporal.burstiness.fano_factor = Zero)

\* C19 witness: two minutes without any timestamped record have been
\* analysed: the fano_factor is 0 and the curve has 1440 entries.
C19_Witness ==
    /\ pc = "analyzed"
    /\ per_minute = <<0, 0>>
    /\ temporal.burstiness.fano_factor = Zero
    /\ Len(temporal.intensity_curve) = CurveLength

====
